---- MODULE Spec2Model ----
(***************************************************************************)
(* A model of tomodachi/helpers/crontab.py: get_next_datetime, its field   *)
(* parser, its feasibility pre-check, its seed list and the retry loop of  *)
(* the nested calculate_date.                                              *)
(*                                                                         *)
(* A string is a sequence of one-character strings, so that split, lower,  *)
(* int() and the alias lookup are computed as the code computes them.      *)
(* A datetime is a record of its civil fields plus `aware` (tzinfo set).   *)
(* A zone's localize attaches the zone and keeps the civil fields; the     *)
(* model has one fixed-offset zone, so aware instants order as their civil *)
(* fields do.                                                              *)
(***************************************************************************)
EXTENDS Integers, Sequences, FiniteSets, TLC

VARIABLES notation, now_date, pc, values, last_day, last_weekday, seeds,
          seed_i, next_date, naive_date, calculated_dates, outcome, error,
          result, prev

vars == <<notation, now_date, pc, values, last_day, last_weekday, seeds,
          seed_i, next_date, naive_date, calculated_dates, outcome, error,
          result, prev>>

----------------------------------------------------------------------------
(* Bounds of the inputs.                                                   *)

\* reference seconds are drawn from 0..MaxSecond
MaxSecond == 1
\* reference microseconds are drawn from 0..MaxMicro
MaxMicro == 1

----------------------------------------------------------------------------
(* Strings.                                                                *)

Digit == [c \in {"0", "1", "2", "3", "4", "5", "6", "7", "8", "9"} |->
            CASE c = "0" -> 0 [] c = "1" -> 1 [] c = "2" -> 2 [] c = "3" -> 3
              [] c = "4" -> 4 [] c = "5" -> 5 [] c = "6" -> 6 [] c = "7" -> 7
              [] c = "8" -> 8 [] c = "9" -> 9]

UpperCase ==
    << "A", "B", "C", "D", "E", "F", "G", "H", "I", "J", "K", "L", "M",
        "N", "O", "P", "Q", "R", "S", "T", "U", "V", "W", "X", "Y",
        "Z" >>

LowerCase ==
    << "a", "b", "c", "d", "e", "f", "g", "h", "i", "j", "k", "l", "m",
        "n", "o", "p", "q", "r", "s", "t", "u", "v", "w", "x", "y",
        "z" >>

\* str.lower(), on ASCII
LowerChar(c) ==
    IF \E k \in 1..Len(UpperCase) : UpperCase[k] = c
    THEN LowerCase[CHOOSE k \in 1..Len(UpperCase) : UpperCase[k] = c]
    ELSE c

Lower(s) == [k \in 1..Len(s) |-> LowerChar(s[k])]

\* c in s
Contains(s, c) == \E k \in 1..Len(s) : s[k] = c

\* s.split(c): the pieces of s between the occurrences of c
RECURSIVE SplitFrom(_, _, _, _)
SplitFrom(s, c, k, piece) ==
    IF k > Len(s) THEN <<piece>>
    ELSE IF s[k] = c THEN <<piece>> \o SplitFrom(s, c, k + 1, <<>>)
    ELSE SplitFrom(s, c, k + 1, Append(piece, s[k]))

Split(s, c) == SplitFrom(s, c, 1, <<>>)

\* int(s) succeeds: an optional '+' and then decimal digits
IsInt(s) ==
    LET body == IF Len(s) > 0 /\ s[1] = "+" THEN Tail(s) ELSE s
    IN  Len(body) > 0 /\ \A k \in 1..Len(body) : body[k] \in DOMAIN Digit

RECURSIVE DigitsValue(_, _)
DigitsValue(s, acc) ==
    IF s = <<>> THEN acc ELSE DigitsValue(Tail(s), 10 * acc + Digit[Head(s)])

ToInt(s) == DigitsValue(IF s[1] = "+" THEN Tail(s) ELSE s, 0)

----------------------------------------------------------------------------
(* The calendar (calendar.monthrange, datetime.isoweekday).                *)

IsLeap(y) == (y % 4 = 0) /\ ((y % 100 # 0) \/ (y % 400 = 0))

\* monthrange(y, m)[1]
DaysInMonth(y, m) ==
    IF m = 2 THEN (IF IsLeap(y) THEN 29 ELSE 28)
    ELSE IF m \in {4, 6, 9, 11} THEN 30 ELSE 31

DaysBeforeMonth(y, m) ==
    LET cum == <<0, 31, 59, 90, 120, 151, 181, 212, 243, 273, 304, 334>>
    IN  cum[m] + (IF m > 2 /\ IsLeap(y) THEN 1 ELSE 0)

\* date.toordinal(): 0001-01-01 is day 1, a Monday
ToOrdinal(y, m, d) ==
    365 * (y - 1) + ((y - 1) \div 4) - ((y - 1) \div 100) + ((y - 1) \div 400)
      + DaysBeforeMonth(y, m) + d

\* date.isoweekday(): Monday = 1 .. Sunday = 7
IsoWeekday(y, m, d) == ((ToOrdinal(y, m, d) + 6) % 7) + 1

\* datetime.datetime(y, m, d, ...) does not raise ValueError
ValidDate(y, m, d) ==
    /\ y \in 1..9999
    /\ m \in 1..12
    /\ d >= 1 /\ d <= DaysInMonth(y, m)

----------------------------------------------------------------------------
(* The tables: cron_attributes and crontab_aliases.                        *)

\* positions of the six fields in cron_attributes (1-based)
MINUTE == 1
HOUR == 2
DAY == 3
MONTH == 4
ISOWEEKDAY == 5
YEAR == 6

MinYear == 1970
MaxYear == 2099

\* cron_range of each field
CronRange(i) ==
    CASE i = MINUTE -> 0..59
      [] i = HOUR -> 0..23
      [] i = DAY -> 1..31
      [] i = MONTH -> 1..12
      [] i = ISOWEEKDAY -> 0..6
      [] i = YEAR -> MinYear..MaxYear

MonthAliases ==
    { <<<<"j", "a", "n">>, 1>>,
       <<<<"f", "e", "b">>, 2>>,
       <<<<"m", "a", "r">>, 3>>,
       <<<<"a", "p", "r">>, 4>>,
       <<<<"m", "a", "y">>, 5>>,
       <<<<"j", "u", "n">>, 6>>,
       <<<<"j", "u", "l">>, 7>>,
       <<<<"a", "u", "g">>, 8>>,
       <<<<"s", "e", "p">>, 9>>,
       <<<<"o", "c", "t">>, 10>>,
       <<<<"n", "o", "v">>, 11>>,
       <<<<"d", "e", "c">>, 12>> }

WeekdayAliases ==
    { <<<<"m", "o", "n">>, 1>>,
       <<<<"t", "u", "e">>, 2>>,
       <<<<"w", "e", "d">>, 3>>,
       <<<<"t", "h", "u">>, 4>>,
       <<<<"f", "r", "i">>, 5>>,
       <<<<"s", "a", "t">>, 6>>,
       <<<<"s", "u", "n">>, 0>> }

\* aliases of each field, as <<name, value>> pairs
Aliases(i) ==
    IF i = MONTH THEN MonthAliases
    ELSE IF i = ISOWEEKDAY THEN WeekdayAliases
    ELSE {}

\* whole-expression macros, as <<name, six-field expansion>> pairs; a
\* notation is the sequence of its whitespace-separated words
crontab_aliases ==
    { <<<<"@", "y", "e", "a", "r", "l", "y">>, <<<<"0">>, <<"0">>, <<"1">>, <<"1">>, <<"*">>>>>>,
       <<<<"@", "a", "n", "n", "u", "a", "l", "l", "y">>, <<<<"0">>, <<"0">>, <<"1">>, <<"1">>, <<"*">>>>>>,
       <<<<"@", "m", "o", "n", "t", "h", "l", "y">>, <<<<"0">>, <<"0">>, <<"1">>, <<"*">>, <<"*">>>>>>,
       <<<<"@", "w", "e", "e", "k", "l", "y">>, <<<<"0">>, <<"0">>, <<"*">>, <<"*">>, <<"0">>>>>>,
       <<<<"@", "d", "a", "i", "l", "y">>, <<<<"0">>, <<"0">>, <<"*">>, <<"*">>, <<"*">>>>>>,
       <<<<"@", "h", "o", "u", "r", "l", "y">>, <<<<"0">>, <<"*">>, <<"*">>, <<"*">>, <<"*">>>>>>,
       <<<<"@", "m", "i", "n", "u", "t", "e", "l", "y">>, <<<<"*">>, <<"*">>, <<"*">>, <<"*">>, <<"*">>>>>> }

\* int(aliases.get(s, s)): the value, or ValueError (ok = FALSE)
IntOf(i, s) ==
    IF \E al \in Aliases(i) : al[1] = s
    THEN [ok |-> TRUE, v |-> (CHOOSE al \in Aliases(i) : al[1] = s)[2]]
    ELSE IF IsInt(s) THEN [ok |-> TRUE, v |-> ToInt(s)]
    ELSE [ok |-> FALSE, v |-> 0]

----------------------------------------------------------------------------
(* The field parser: one term (part) of one field.                         *)

\* an exception that is not caught (ValueError of an unpacking or of int(),
\* IndexError of an empty string, ZeroDivisionError)
Uncaught == [err |-> "uncaught", pv |-> {}, last |-> FALSE]

Parsed(pv, last) == [err |-> "", pv |-> pv, last |-> last]

MinOf(S) == CHOOSE x \in S : \A y \in S : x <= y

Min2(a, b) == IF a <= b THEN a ELSE b

Max2(a, b) == IF a <= b THEN b ELSE a

\* line 49: the values between the two ends, whichever is the smaller
RangeValues(i, ia, ib, last) ==
    IF ~ia.ok \/ ~ib.ok THEN Uncaught
    ELSE Parsed({x \in CronRange(i) :
                   x >= Min2(ia.v, ib.v) /\ x <= Max2(ia.v, ib.v)}, last)

\* lines 42-48: b is cut at its '/', a leading 'l' of a is taken off, and both
\* ends go through the aliases and int()
RangeEnds(i, a, b, bs) ==
    IF Contains(b, "/") /\ Len(bs) # 2 THEN Uncaught
    ELSE IF a = <<>> THEN Uncaught
    ELSE RangeValues(i, IntOf(i, IF a[1] = "l" THEN Tail(a) ELSE a),
                     IntOf(i, IF Contains(b, "/") THEN bs[1] ELSE b),
                     a[1] = "l")

\* line 41: a, b = part.split('-')
RangeSplit(i, ps) ==
    IF Len(ps) # 2 THEN Uncaught
    ELSE RangeEnds(i, ps[1], ps[2], Split(ps[2], "/"))

\* lines 39-49: the range 'a-b'; a part without '-' keeps the whole range
RangeBlock(i, part) ==
    IF ~Contains(part, "-") THEN Parsed(CronRange(i), FALSE)
    ELSE RangeSplit(i, Split(part, "-"))

\* lines 56 and 64: [x for x in possible_values if x % b == (a % b)]
ModFilter(pv, b, a, last) ==
    IF pv = {} THEN Parsed({}, last)
    ELSE IF b = 0 THEN Uncaught
    ELSE Parsed({x \in pv : x % b = a % b}, last)

\* line 60: [x for x in possible_values if x % b == 0], for '*/b' and '?/b'
StarFilter(pv, b, last) ==
    IF pv = {} THEN Parsed({}, last)
    ELSE IF b = 0 THEN Uncaught
    ELSE Parsed({x \in pv : x % b = 0}, last)

\* lines 62-64: the step from the first end of a range
StepOfRange(i, ps2, b, pv, last) ==
    IF Len(ps2) # 2 THEN Uncaught
    ELSE IF ~IntOf(i, ps2[1]).ok THEN Uncaught
    ELSE ModFilter(pv, b, IntOf(i, ps2[1]).v, last)

\* lines 53-64: a numeric a, '*' or '?', or the first end of a range
StepValues(i, part, a, b, ia, pv, last) ==
    IF ~IsInt(b) THEN Uncaught
    ELSE IF ia.ok THEN ModFilter(pv, ToInt(b), ia.v, last)
    ELSE IF a \in {<<"*">>, <<"?">>} THEN StarFilter(pv, ToInt(b), last)
    ELSE StepOfRange(i, Split(part, "-"), ToInt(b), pv, last)

\* line 52: a, b = part.split('/')
StepSplit(i, part, ps, pv, last) ==
    IF Len(ps) # 2 THEN Uncaught
    ELSE StepValues(i, part, ps[1], ps[2], IntOf(i, ps[1]), pv, last)

\* lines 51-64: the step 'a/b'
StepBlock(i, part, pv, last) ==
    IF ~Contains(part, "/") THEN Parsed(pv, last)
    ELSE StepSplit(i, part, Split(part, "/"), pv, last)

\* lines 70-73: the single value; a ValueError of int() is passed over and
\* leaves possible_values as they are
ValueOf(ia, pv, last) ==
    IF ia.ok THEN Parsed({x \in pv : x = ia.v}, last) ELSE Parsed(pv, last)

\* lines 66-73: a leading 'l' is taken off, then the single value
ValueBlock(i, part, pv, last) ==
    IF part = <<>> THEN Uncaught
    ELSE ValueOf(IntOf(i, IF part[1] = "l" THEN Tail(part) ELSE part), pv,
                 last \/ part[1] = "l")

\* lines 80-81: a part that leaves no value is an error
NotEmpty(r) ==
    IF r.err = "" /\ r.pv = {}
    THEN [err |-> "invalid", pv |-> {}, last |-> r.last]
    ELSE r

AndStep(i, part, r) ==
    IF r.err # "" THEN r ELSE StepBlock(i, part, r.pv, r.last)

AndValue(i, part, r) ==
    IF r.err # "" THEN r ELSE ValueBlock(i, part, r.pv, r.last)

\* lines 38-81: one part of field i
ParsePart(i, part) ==
    NotEmpty(AndValue(i, part, AndStep(i, part, RangeBlock(i, part))))

\* lines 82-86: the union of the parts; the first failing part raises
FieldOf(rs) ==
    IF \E k \in 1..Len(rs) : rs[k].err # ""
    THEN [err |-> rs[MinOf({k \in 1..Len(rs) : rs[k].err # ""})].err,
          pv |-> {}, last |-> FALSE]
    ELSE Parsed(UNION {rs[k].pv : k \in 1..Len(rs)},
                \E k \in 1..Len(rs) : rs[k].last)

ParseParts(i, parts) == [k \in 1..Len(parts) |-> ParsePart(i, parts[k])]

\* lines 35-86: field i, from its lower-cased comma-separated parts
ParseField(i, field) == FieldOf(ParseParts(i, Split(Lower(field), ",")))

\* lines 26-28: macro substitution, and '*' for the missing trailing fields
CronParts(n) ==
    LET e == IF \E al \in crontab_aliases : n = <<al[1]>>
             THEN (CHOOSE al \in crontab_aliases : n = <<al[1]>>)[2]
             ELSE n
    IN  [k \in 1..6 |-> IF k <= Len(e) THEN e[k] ELSE <<"*">>]

\* DaysOutOfScope asking for a month strictly longer than the smallest day
DaysOutOfScope_Strict(vals) ==
    /\ MinOf(vals[DAY]) >= 28
    /\ ~ \E y \in vals[YEAR], m \in vals[MONTH] :
            DaysInMonth(y, m) > MinOf(vals[DAY])

\* lines 88-90: the smallest admissible day fits no admissible month
DaysOutOfScope(vals) ==
    /\ MinOf(vals[DAY]) >= 28
    /\ ~ \E y \in vals[YEAR], m \in vals[MONTH] :
            DaysInMonth(y, m) >= MinOf(vals[DAY])

\* lines 88-90 and the values of lines 86, 76 and 78
Checked(vals, ld, lw) ==
    IF DaysOutOfScope(vals)
    THEN [err |-> "days out of scope", values |-> <<>>,
          last_day |-> FALSE, last_weekday |-> FALSE]
    ELSE [err |-> "", values |-> vals, last_day |-> ld, last_weekday |-> lw]

ScheduleOf(fs) ==
    IF \E k \in 1..6 : fs[k].err # ""
    THEN [err |-> fs[MinOf({k \in 1..6 : fs[k].err # ""})].err,
          values |-> <<>>, last_day |-> FALSE, last_weekday |-> FALSE]
    ELSE Checked([k \in 1..6 |-> fs[k].pv], fs[DAY].last, fs[ISOWEEKDAY].last)

ParseFields(cp) == [k \in 1..6 |-> ParseField(k, cp[k])]

\* lines 26-90: the parsed schedule, or the exception raised
ParseNotation(n) == ScheduleOf(ParseFields(CronParts(n)))

----------------------------------------------------------------------------
(* Datetimes.                                                              *)

\* Python's None, where a datetime is expected
None ==
    [year |-> 0, month |-> 0, day |-> 0, hour |-> 0, minute |-> 0,
     second |-> 0, microsecond |-> 0, aware |-> FALSE]

\* datetime.datetime(y, m, d, h, mi): naive, seconds and microseconds 0;
\* None stands for its ValueError
Datetime(y, m, d, h, mi) ==
    IF ValidDate(y, m, d) /\ h \in 0..23 /\ mi \in 0..59
    THEN [year |-> y, month |-> m, day |-> d, hour |-> h, minute |-> mi,
          second |-> 0, microsecond |-> 0, aware |-> FALSE]
    ELSE None

\* tz.localize(d) of a naive d: the zone is attached, the civil fields stay
Localize(d) == IF d = None THEN None ELSE [d EXCEPT !.aware = TRUE]

\* the order of datetimes of one class (both naive or both aware)
Key(d) == <<d.year, d.month, d.day, d.hour, d.minute, d.second, d.microsecond>>

Before(a, b) ==
    \E k \in 1..7 : /\ Key(a)[k] < Key(b)[k]
                    /\ \A j \in 1..(k - 1) : Key(a)[j] = Key(b)[j]

\* getattr(next_date, attr[0]) for the fields the loop visits
GetAttr(d, i) ==
    CASE i = MINUTE -> d.minute
      [] i = HOUR -> d.hour
      [] i = DAY -> d.day
      [] i = MONTH -> d.month
      [] i = YEAR -> d.year

\* line 115: the datetime rebuilt from year, month, day, hour, minute with
\* field i set to v, localized; None stands for the ValueError
Rebuild(d, i, v) ==
    Localize(Datetime(IF i = YEAR THEN v ELSE d.year,
                      IF i = MONTH THEN v ELSE d.month,
                      IF i = DAY THEN v ELSE d.day,
                      IF i = HOUR THEN v ELSE d.hour,
                      IF i = MINUTE THEN v ELSE d.minute))

----------------------------------------------------------------------------
(* calculate_date: one pass of its while loop.                             *)

\* the order in which lines 103-118 visit the fields (isoweekday is skipped)
FieldOrder == <<MINUTE, HOUR, DAY, MONTH, YEAR>>

\* lines 107-113: the smallest admissible value of field i that is >= value,
\* or -1 when there is none
NewValue(vals, i, value) ==
    CHOOSE new_value \in
      { IF possible_values = {} THEN -1 ELSE MinOf(possible_values) :
          possible_values \in {{v \in vals[i] : v >= value}} } : TRUE

\* lines 103-118, from the k-th field of FieldOrder on. The new value and the
\* rebuilt date are bound by set constructors, so that each is computed once.
RECURSIVE CarryFrom(_, _, _)
RECURSIVE CarryField(_, _, _, _)

\* lines 108-118: field FieldOrder[k] with its new value (-1: none)
CarryField(vals, d, k, new_value) ==
    IF new_value = -1
      THEN (IF FieldOrder[k] = YEAR
              THEN [kind |-> "exhausted", date |-> None]
              ELSE [kind |-> "failed", date |-> None])
    ELSE CHOOSE c \in
           { IF nd = None THEN [kind |-> "failed", date |-> None]
             ELSE CarryFrom(vals, nd, k + 1) :
               nd \in {Rebuild(d, FieldOrder[k], new_value)} } : TRUE

CarryFrom(vals, d, k) ==
    IF k > Len(FieldOrder) THEN [kind |-> "built", date |-> d]
    ELSE CHOOSE c \in
           { CarryField(vals, d, k, new_value) :
               new_value \in {NewValue(vals, FieldOrder[k],
                                       GetAttr(d, FieldOrder[k]))} } : TRUE

\* line 120: (next_date.isoweekday() % 7) in values[4]
WeekdayOk(vals, d) == (IsoWeekday(d.year, d.month, d.day) % 7) \in vals[ISOWEEKDAY]

\* line 122: with last_day, the day is the last of its month
LastDayOk(ld, d) == ld => d.day = DaysInMonth(d.year, d.month)

\* LastWeekdayOk with the scan of the later days stopping one day short of
\* the end of the month
LastWeekdayOk_ShortScan(lw, d) ==
    lw => ~ \E i \in (d.day + 1)..(DaysInMonth(d.year, d.month) - 1) :
              IsoWeekday(d.year, d.month, i) = IsoWeekday(d.year, d.month, d.day)

\* lines 124-128: with last_weekday, no later day of the month has the weekday
LastWeekdayOk(lw, d) ==
    lw => ~ \E i \in (d.day + 1)..DaysInMonth(d.year, d.month) :
              IsoWeekday(d.year, d.month, i) = IsoWeekday(d.year, d.month, d.day)

\* lines 120-128: the post-filters of a built candidate
FiltersOk(vals, ld, lw, d) ==
    WeekdayOk(vals, d) /\ LastDayOk(ld, d) /\ LastWeekdayOk(lw, d)

\* NextStart with the month not moved on after the last day of a month
NextStart_SameMonth(original_date) ==
    IF Datetime(original_date.year, original_date.month,
                original_date.day + 1, 0, 0) # None
      THEN Localize(Datetime(original_date.year, original_date.month,
                             original_date.day + 1, 0, 0))
      ELSE Localize(Datetime(original_date.year, original_date.month, 1, 0, 0))

\* lines 130-140: the start of the next pass: the day after original_date,
\* else the first of the next month, else 1 January of the next year
NextStart(original_date) ==
    LET y == original_date.year
        m == original_date.month
        d == original_date.day
    IN  IF Datetime(y, m, d + 1, 0, 0) # None
          THEN Localize(Datetime(y, m, d + 1, 0, 0))
        ELSE IF Datetime(y, m + 1, 1, 0, 0) # None
          THEN Localize(Datetime(y, m + 1, 1, 0, 0))
        ELSE Localize(Datetime(y + 1, 1, 1, 0, 0))

\* line 144: the loop gives up at this year
HorizonEnd == 2100

\* lines 129-145: after a pass that built no valid candidate
AfterFailure(nd) ==
    IF nd.year >= HorizonEnd THEN [kind |-> "none", date |-> None]
    ELSE [kind |-> "again", date |-> nd]

PassOf(vals, ld, lw, original_date, c) ==
    IF c.kind = "exhausted" THEN [kind |-> "none", date |-> None]
    ELSE IF c.kind = "built" /\ FiltersOk(vals, ld, lw, c.date)
      THEN [kind |-> "found", date |-> c.date]
    ELSE AfterFailure(NextStart(original_date))

\* lines 102-145: one pass from original_date: "found" with the candidate,
\* "none" (calculate_date returns None) or "again" with the next start
Pass(vals, ld, lw, original_date) ==
    CHOOSE r \in { PassOf(vals, ld, lw, original_date, c) :
                     c \in {CarryFrom(vals, original_date, 1)} } : TRUE

\* lines 147-149: a naive seed gets a naive result
Returned(naive, d) ==
    IF naive /\ d # None THEN [d EXCEPT !.aware = FALSE] ELSE d

----------------------------------------------------------------------------
(* get_next_datetime: the seeds and the final minimum.                     *)

\* lines 153-158: the six entries of the seed list, None for a skipped one
SeedEntries(now) ==
    << IF now.second = 0 THEN now ELSE None,
       IF now.minute < 60 - 1
         THEN Datetime(now.year, now.month, now.day, now.hour, now.minute + 1)
         ELSE None,
       IF now.hour < 24 - 1
         THEN Datetime(now.year, now.month, now.day, now.hour + 1, 0)
         ELSE None,
       IF now.day < DaysInMonth(now.year, now.month) - 1
         THEN Datetime(now.year, now.month, now.day + 1, 0, 0)
         ELSE None,
       IF now.month < 12 - 1
         THEN Datetime(now.year, now.month + 1, 1, 0, 0)
         ELSE None,
       Datetime(now.year + 1, 1, 1, 0, 0) >>

\* line 159: "if d" keeps the entries that are not None
SeedList(now) == SelectSeq(SeedEntries(now), LAMBDA d : d # None)

\* line 162: min of the dates that are not None
MinDate(ds) ==
    LET S == {ds[k] : k \in {j \in 1..Len(ds) : ds[j] # None}}
    IN  CHOOSE d \in S : \A e \in S : ~Before(e, d)

----------------------------------------------------------------------------
(* The inputs: crontab notations and reference instants.                   *)

\* notations paired with every reference of Refs:
\*   * * * * *
\*   0 0 l * *
\*   0 0 * * lfri
\*   0,30 10,12 * * *
\*   0 0 10,20 12 *
\*   0 0 31 * *
\*   30 10 * * Mon-Fri
\*   */20 */8 */10 */4 *
\*   @daily
SearchNotations ==
    { <<<<"*">>, <<"*">>, <<"*">>, <<"*">>, <<"*">>>>,
      <<<<"0">>, <<"0">>, <<"l">>, <<"*">>, <<"*">>>>,
      <<<<"0">>, <<"0">>, <<"*">>, <<"*">>, <<"l", "f", "r", "i">>>>,
      <<<<"0", ",", "3", "0">>, <<"1", "0", ",", "1", "2">>, <<"*">>, <<"*">>, <<"*">>>>,
      <<<<"0">>, <<"0">>, <<"1", "0", ",", "2", "0">>, <<"1", "2">>, <<"*">>>>,
      <<<<"0">>, <<"0">>, <<"3", "1">>, <<"*">>, <<"*">>>>,
      <<<<"3", "0">>, <<"1", "0">>, <<"*">>, <<"*">>, <<"M", "o", "n", "-", "F", "r", "i">>>>,
      <<<<"*", "/", "2", "0">>, <<"*", "/", "8">>, <<"*", "/", "1", "0">>, <<"*", "/", "4">>, <<"*">>>>,
      <<<<"@", "d", "a", "i", "l", "y">>>> }

\* notations of the parser and the pre-check, paired with LateRefs:
\*   foo * * * *
\*   jan * * * *
\*   * * * foo *
\*   0 0 * * lfoo
\*   0 0 31 feb *
\*   0 0 29 feb * 2021
\*   0 0 29 feb * 2024
\*   0 0 30,31 feb,apr *
\*   0 0 28 feb *
\*   0 0 27 feb *
\*   0 0 1 1 * 1990
\*   60 * * * *
\*   5- * * * *
\*   1-2-3 * * * *
\*   */0 * * * *
\*   1,,2 * * * *
\*   1-5/2 * * * *
\*   3/5 * * * *
\*   0 0 * nov-jan *
\*   ?/15 */1 * * ?/3
\*   0 0 */7 * *
\*   0 0 */40 * *
\*   0 0 1 1 * */50
ParseNotations ==
    { <<<<"f", "o", "o">>, <<"*">>, <<"*">>, <<"*">>, <<"*">>>>,
      <<<<"j", "a", "n">>, <<"*">>, <<"*">>, <<"*">>, <<"*">>>>,
      <<<<"*">>, <<"*">>, <<"*">>, <<"f", "o", "o">>, <<"*">>>>,
      <<<<"0">>, <<"0">>, <<"*">>, <<"*">>, <<"l", "f", "o", "o">>>>,
      <<<<"0">>, <<"0">>, <<"3", "1">>, <<"f", "e", "b">>, <<"*">>>>,
      <<<<"0">>, <<"0">>, <<"2", "9">>, <<"f", "e", "b">>, <<"*">>, <<"2", "0", "2", "1">>>>,
      <<<<"0">>, <<"0">>, <<"2", "9">>, <<"f", "e", "b">>, <<"*">>, <<"2", "0", "2", "4">>>>,
      <<<<"0">>, <<"0">>, <<"3", "0", ",", "3", "1">>, <<"f", "e", "b", ",", "a", "p", "r">>, <<"*">>>>,
      <<<<"0">>, <<"0">>, <<"2", "8">>, <<"f", "e", "b">>, <<"*">>>>,
      <<<<"0">>, <<"0">>, <<"2", "7">>, <<"f", "e", "b">>, <<"*">>>>,
      <<<<"0">>, <<"0">>, <<"1">>, <<"1">>, <<"*">>, <<"1", "9", "9", "0">>>>,
      <<<<"6", "0">>, <<"*">>, <<"*">>, <<"*">>, <<"*">>>>,
      <<<<"5", "-">>, <<"*">>, <<"*">>, <<"*">>, <<"*">>>>,
      <<<<"1", "-", "2", "-", "3">>, <<"*">>, <<"*">>, <<"*">>, <<"*">>>>,
      <<<<"*", "/", "0">>, <<"*">>, <<"*">>, <<"*">>, <<"*">>>>,
      <<<<"1", ",", ",", "2">>, <<"*">>, <<"*">>, <<"*">>, <<"*">>>>,
      <<<<"1", "-", "5", "/", "2">>, <<"*">>, <<"*">>, <<"*">>, <<"*">>>>,
      <<<<"3", "/", "5">>, <<"*">>, <<"*">>, <<"*">>, <<"*">>>>,
      <<<<"0">>, <<"0">>, <<"*">>, <<"n", "o", "v", "-", "j", "a", "n">>, <<"*">>>>,
      <<<<"?", "/", "1", "5">>, <<"*", "/", "1">>, <<"*">>, <<"*">>, <<"?", "/", "3">>>>,
      <<<<"0">>, <<"0">>, <<"*", "/", "7">>, <<"*">>, <<"*">>>>,
      <<<<"0">>, <<"0">>, <<"*", "/", "4", "0">>, <<"*">>, <<"*">>>>,
      <<<<"0">>, <<"0">>, <<"1">>, <<"1">>, <<"*">>, <<"*", "/", "5", "0">>>> }

\* '0 0 29 2 *'
LeapNotation == <<<<"0">>, <<"0">>, <<"2", "9">>, <<"2">>, <<"*">>>>

Ref(y, m, d, h, mi, s, us, aware) ==
    [year |-> y, month |-> m, day |-> d, hour |-> h, minute |-> mi,
     second |-> s, microsecond |-> us, aware |-> aware]

\* mid-month, the second-to-last and the last day of a month, November,
\* December and the end of the horizon
RefDates ==
    { <<2021, 4, 15>>, <<2021, 4, 29>>, <<2021, 4, 30>>, <<2021, 11, 15>>,
      <<2021, 11, 30>>, <<2021, 12, 31>>, <<2099, 11, 30>>, <<2099, 12, 31>> }

RefTimes == { <<0, 0>>, <<10, 15>>, <<23, 59>> }

Refs ==
    { Ref(dt[1], dt[2], dt[3], t[1], t[2], s, us, aw) :
        dt \in RefDates, t \in RefTimes, s \in 0..MaxSecond,
        us \in 0..MaxMicro, aw \in BOOLEAN }

LateRefs == { r \in Refs : r.year = 2099 /\ r.month = 11 /\ r.hour = 10 }

\* references of the leap-year notation
LeapRefs ==
    { Ref(2023, 1, 1, 0, 0, 0, 0, FALSE), Ref(2024, 3, 1, 0, 0, 0, 0, FALSE),
      Ref(2024, 2, 28, 23, 59, 1, 0, FALSE), Ref(2024, 2, 28, 10, 15, 0, 0, FALSE) }

Inputs ==
    (SearchNotations \X Refs) \cup (ParseNotations \X LateRefs)
      \cup ({LeapNotation} \X LeapRefs)

\* the inputs with the long searches: every notation from the end of the
\* horizon, and the leap-year notation
LongInputs == {in \in Inputs : in[2] \in LateRefs \cup LeapRefs}

----------------------------------------------------------------------------
(* The state machine.                                                      *)

\* the state at the entry of get_next_datetime(n, now)
Entry(n, now) ==
    /\ notation = n
    /\ now_date = now
    /\ pc = "parse"
    /\ values = <<>>
    /\ last_day = FALSE
    /\ last_weekday = FALSE
    /\ seeds = <<>>
    /\ seed_i = 0
    /\ next_date = None
    /\ naive_date = FALSE
    /\ calculated_dates = <<>>
    /\ outcome = ""
    /\ error = ""
    /\ result = None
    /\ prev = None

Init == \E in \in Inputs : Entry(in[1], in[2])

LongInit == \E in \in LongInputs : Entry(in[1], in[2])

\* lines 26-90: the notation is parsed and pre-checked, or an exception leaves
\* get_next_datetime
Parse ==
    /\ pc = "parse"
    /\ \E p \in {ParseNotation(notation)} :
         IF p.err # ""
         THEN /\ pc' = "done"
              /\ outcome' = "raised"
              /\ error' = p.err
              /\ UNCHANGED <<values, last_day, last_weekday>>
         ELSE /\ pc' = "seeds"
              /\ values' = p.values
              /\ last_day' = p.last_day
              /\ last_weekday' = p.last_weekday
              /\ UNCHANGED <<outcome, error>>
    /\ UNCHANGED <<notation, now_date, seeds, seed_i, next_date, naive_date,
                   calculated_dates, result, prev>>

\* lines 153-159: the seed list is built
MakeSeeds ==
    /\ pc = "seeds"
    /\ seeds' = SeedList(now_date)
    /\ seed_i' = 1
    /\ calculated_dates' = <<>>
    /\ pc' = "calculate"
    /\ UNCHANGED <<notation, now_date, values, last_day, last_weekday,
                   next_date, naive_date, outcome, error, result, prev>>

\* line 152 and lines 93-99: "tz.localize(d) if tz else d" of the next seed,
\* which raises ValueError for a d that is aware already, and the entry of
\* calculate_date
EnterCalculateDate ==
    /\ pc = "calculate"
    /\ LET d == seeds[seed_i] IN
         IF now_date.aware /\ d.aware
         THEN /\ pc' = "done"
              /\ outcome' = "raised"
              /\ error' = "localize"
              /\ UNCHANGED <<next_date, naive_date>>
         ELSE /\ pc' = "loop"
              /\ next_date' = (IF now_date.aware THEN Localize(d) ELSE d)
              /\ naive_date' = ~next_date'.aware
              /\ UNCHANGED <<outcome, error>>
    /\ UNCHANGED <<notation, now_date, values, last_day, last_weekday, seeds,
                   seed_i, calculated_dates, result, prev>>

\* lines 102-145: a pass of the while loop that fails and starts the next one
Retry ==
    /\ pc = "loop"
    /\ \E r \in {Pass(values, last_day, last_weekday, next_date)} :
         /\ r.kind = "again"
         /\ next_date' = r.date
    /\ UNCHANGED <<notation, now_date, pc, values, last_day, last_weekday,
                   seeds, seed_i, naive_date, calculated_dates, outcome, error,
                   result, prev>>

\* lines 102-149: a pass of the while loop that ends calculate_date, with the
\* candidate or with None
Return ==
    /\ pc = "loop"
    /\ \E r \in {Pass(values, last_day, last_weekday, next_date)} :
         /\ r.kind # "again"
         /\ calculated_dates' =
              Append(calculated_dates, Returned(naive_date, r.date))
    /\ next_date' = None
    /\ IF seed_i < Len(seeds)
         THEN seed_i' = seed_i + 1 /\ pc' = "calculate"
         ELSE seed_i' = seed_i /\ pc' = "finish"
    /\ UNCHANGED <<notation, now_date, values, last_day, last_weekday, seeds,
                   naive_date, outcome, error, result, prev>>

\* lines 160-162: None, or the earliest of the calculated dates
Finish ==
    /\ pc = "finish"
    /\ result' = (IF \A k \in 1..Len(calculated_dates) :
                        calculated_dates[k] = None
                  THEN None ELSE MinDate(calculated_dates))
    /\ outcome' = "returned"
    /\ pc' = "done"
    /\ UNCHANGED <<notation, now_date, values, last_day, last_weekday, seeds,
                   seed_i, next_date, naive_date, calculated_dates, error,
                   prev>>

\* line 25: the caller asks once more, with the occurrence it got as the
\* reference (prev is None during the first call)
CallAgain ==
    /\ pc = "done"
    /\ outcome = "returned"
    /\ result # None
    /\ prev = None
    /\ now_date' = result
    /\ prev' = result
    /\ pc' = "parse"
    /\ values' = <<>>
    /\ last_day' = FALSE
    /\ last_weekday' = FALSE
    /\ seeds' = <<>>
    /\ seed_i' = 0
    /\ next_date' = None
    /\ naive_date' = FALSE
    /\ calculated_dates' = <<>>
    /\ outcome' = ""
    /\ error' = ""
    /\ result' = None
    /\ UNCHANGED notation

Next ==
    \/ Parse
    \/ MakeSeeds
    \/ EnterCalculateDate
    \/ Retry
    \/ Return
    \/ Finish
    \/ CallAgain

Spec == Init /\ [][Next]_vars

\* the interpreter keeps running calculate_date: a pass of its loop that can
\* be taken is taken; checked from the inputs with the long searches
FairSpec == LongInit /\ [][Next]_vars /\ WF_vars(Retry \/ Return)

----------------------------------------------------------------------------
(* What the schedule asks of an instant, stated from the schedule itself.  *)

\* the weekday of a date with Sunday = 0
SundayZeroWeekday(y, m, d) == ToOrdinal(y, m, d) % 7

\* the date y-m-d exists and satisfies the day, month, year and weekday sets
\* and the two "last" modifiers
DateSatisfies(y, m, d) ==
    /\ ValidDate(y, m, d)
    /\ y \in values[YEAR]
    /\ m \in values[MONTH]
    /\ d \in values[DAY]
    /\ SundayZeroWeekday(y, m, d) \in values[ISOWEEKDAY]
    /\ last_day => d = DaysInMonth(y, m)
    /\ last_weekday => d + 7 > DaysInMonth(y, m)

\* the instant y-m-d h:mi:00 satisfies the whole schedule
Satisfies(y, m, d, h, mi) ==
    /\ DateSatisfies(y, m, d)
    /\ h \in values[HOUR]
    /\ mi \in values[MINUTE]

\* the instant y-m-d h:mi:00.000000
Instant(y, m, d, h, mi) ==
    [year |-> y, month |-> m, day |-> d, hour |-> h, minute |-> mi,
     second |-> 0, microsecond |-> 0, aware |-> FALSE]

\* the call has returned an occurrence
ReturnedDate == pc = "done" /\ outcome = "returned" /\ result # None

\* the call has returned None
ReturnedNone == pc = "done" /\ outcome = "returned" /\ result = None

\* some instant with zero seconds, at or after lo and before hi, satisfies
\* the schedule
MatchBetween(lo, hi) ==
    \E y \in lo.year..hi.year, m \in 1..12, d \in 1..31 :
        /\ DateSatisfies(y, m, d)
        /\ \E h \in values[HOUR], mi \in values[MINUTE] :
              /\ ~Before(Instant(y, m, d, h, mi), lo)
              /\ Before(Instant(y, m, d, h, mi), hi)

\* the first instant after the horizon
AfterHorizon == Instant(MaxYear + 1, 1, 1, 0, 0)

----------------------------------------------------------------------------
(* The claims.                                                             *)

\* C1: minimality. When get_next_datetime returns an instant r, no instant
\* with zero seconds at or after the reference and before r satisfies the
\* schedule.
C1_Minimality == ReturnedDate => ~MatchBetween(now_date, result)

\* C2: completeness of the empty result. get_next_datetime returns None only
\* if no instant at or after the reference and up to the end of 2099
\* satisfies the schedule.
C2_NoneOnlyIfNoMatch == ReturnedNone => ~MatchBetween(now_date, AfterHorizon)

\* C3: soundness. Every instant returned satisfies the whole schedule: its
\* minute, hour, day, month, year and weekday (Sunday = 0) are admissible, with
\* the 'l' modifier of the day field it is the last day of its month, and
\* with the 'l' modifier of the weekday field no later day of its month has
\* its weekday.
C3_Soundness ==
    ReturnedDate =>
        /\ Satisfies(result.year, result.month, result.day, result.hour,
                     result.minute)
        /\ result.second = 0
        /\ result.microsecond = 0

\* a returned last-weekday occurrence in a later month than the reference:
\* the month was carried and the filters ran on the carried date
C3_Witness ==
    /\ ReturnedDate
    /\ last_weekday
    /\ <<result.year, result.month>> # <<now_date.year, now_date.month>>

\* C4: a result that is not None is never earlier than the reference,
\* whatever the seconds and microseconds of the reference.
C4_NotBeforeReference == ReturnedDate => ~Before(result, now_date)

\* C5: strict advancement. Called again with its own result r1 as the
\* reference, get_next_datetime returns None or an instant strictly later
\* than r1.
C5_StrictAdvance == (ReturnedDate /\ prev # None) => Before(prev, result)

\* the calendar day of a datetime, counted from 0001-01-01
DayNumber(d) == ToOrdinal(d.year, d.month, d.day)

\* C6: termination of the retry loop of calculate_date. A pass that fails
\* starts the next pass at 00:00 of the next calendar day (the next day, else
\* the first of the next month, else 1 January of the next year), still
\* before 2100; and the loop is always left.
C6_Termination ==
    /\ [][(pc = "loop" /\ pc' = "loop") =>
            /\ DayNumber(next_date') = DayNumber(next_date) + 1
            /\ next_date'.hour = 0 /\ next_date'.minute = 0
            /\ next_date'.year < HorizonEnd]_vars
    /\ (pc = "loop") ~> (pc # "loop")

\* the loop has retried its way from a seed into a later year
C6_Witness == pc = "loop" /\ next_date.year > seeds[seed_i].year

\* a number or a known alias of field i
KnownValue(i, t) == (\E al \in Aliases(i) : al[1] = t) \/ IsInt(t)

\* '*', '?', a number, an alias, 'l', 'lN', or a range or step form
WellFormedTerm(i, t) ==
    \/ t \in {<<"*">>, <<"?">>}
    \/ KnownValue(i, t)
    \/ (t # <<>> /\ t[1] = "l" /\ (Len(t) = 1 \/ KnownValue(i, Tail(t))))
    \/ Contains(t, "-")
    \/ Contains(t, "/")

AllWellFormed(i, parts) == \A k \in 1..Len(parts) : WellFormedTerm(i, parts[k])

HasMalformedTerm(n) ==
    \E i \in 1..6 : ~AllWellFormed(i, Split(Lower(CronParts(n)[i]), ","))

\* C7: a notation with a malformed term is rejected at parse time: the call
\* never gets past the parser, it raises there.
C7_MalformedRejected ==
    HasMalformedTerm(notation) =>
        \/ pc = "parse"
        \/ (pc = "done" /\ outcome = "raised" /\ error # "localize")

\* the admissible sets of a notation whose six fields parse
FieldsParse(fs) == \A k \in 1..6 : fs[k].err = ""

NoMonthHolds(days, months, years) ==
    /\ MinOf(days) >= 28
    /\ \A y \in years, m \in months : ~ValidDate(y, m, MinOf(days))

PreCheckAgrees(fs) ==
    (outcome = "raised" /\ error = "days out of scope")
        <=> NoMonthHolds(fs[DAY].pv, fs[MONTH].pv, fs[YEAR].pv)

ParsedAndChecked(fs) == FieldsParse(fs) => PreCheckAgrees(fs)

\* C8: feasibility pre-check. Once the fields are parsed, get_next_datetime
\* raises 'days out of scope' if and only if the smallest admissible day d is
\* >= 28 and no admissible (year, month) has a day d.
C8_FeasibilityPreCheck ==
    pc # "parse" =>
        ParsedAndChecked(ParseFields(CronParts(notation)))

\* the pre-check has rejected day 29 of a February of non-leap years only
C8_Witness ==
    /\ pc = "done" /\ outcome = "raised" /\ error = "days out of scope"
    /\ MinOf(ParseField(DAY, CronParts(notation)[DAY]).pv) = 29

\* the call is over and the parser and the pre-check did not raise
ValidScheduleDone ==
    pc = "done" /\ error \notin {"uncaught", "invalid", "days out of scope"}

\* C9: for a valid schedule and any reference, naive or aware,
\* get_next_datetime does not raise, and a result that is not None is naive
\* for a naive reference and aware for an aware one.
C9_NoRaiseSameClass ==
    ValidScheduleDone =>
        /\ outcome = "returned"
        /\ result # None => result.aware = now_date.aware

\* 29 February 00:00 of the first leap year whose 29 February is not before
\* the reference
IsFirstLeapDay(now, r) ==
    /\ <<r.month, r.day, r.hour, r.minute, r.second, r.microsecond>>
         = <<2, 29, 0, 0, 0, 0>>
    /\ IsLeap(r.year)
    /\ ~Before(r, now)
    /\ \A y \in now.year..(r.year - 1) :
          IsLeap(y) => Before(Instant(y, 2, 29, 0, 0), now)

\* C10: leap-year handling. For '0 0 29 2 *' the result is always 29
\* February 00:00 of the first leap year whose 29 February is not before the
\* reference.
C10_LeapYear ==
    (notation = LeapNotation /\ pc = "done") =>
        /\ outcome = "returned"
        /\ result # None
        /\ IsFirstLeapDay(now_date, result)

\* the field is the single term '*/S' or '?/S' with a step S >= 1
IsStarStep(field) ==
    /\ Len(field) >= 3
    /\ field[1] \in {"*", "?"}
    /\ field[2] = "/"
    /\ IsInt(SubSeq(field, 3, Len(field)))
    /\ ToInt(SubSeq(field, 3, Len(field))) >= 1

\* the step of a '*/S' or '?/S' field
StepOf(field) == ToInt(SubSeq(field, 3, Len(field)))

\* every S-th value of the domain of field i, from the domain's minimum on
EveryNth(i, S) == {x \in CronRange(i) : (x - MinOf(CronRange(i))) % S = 0}

\* the parser accepted the notation and gave its field i this set
ParsedTo(i, S) == outcome # "raised" /\ values # <<>> /\ values[i] = S

\* C11: for every field and every step S >= 1, the term '*/S' or '?/S'
\* parses to every S-th value of the field's domain starting at the domain's
\* minimum, for day-of-month, month and year as well.
C11_StepFromMinimum ==
    pc \notin {"parse"} =>
        \A i \in 1..6 :
            IsStarStep(CronParts(notation)[i]) =>
                ParsedTo(i, EveryNth(i, StepOf(CronParts(notation)[i])))

\* the seeds the reference asks for: itself on a minute boundary (its seconds
\* are 0; its microseconds are the matter of C4 and are not asked about
\* here), the next minute, hour, day and month unless it is at that field's
\* maximum, and always 1 January of the next year
ExpectedSeeds(now) ==
    {now : x \in {y \in {0} : now.second = 0}}
      \cup {Datetime(now.year, now.month, now.day, now.hour, now.minute + 1) :
              x \in {y \in {0} : now.minute # 59}}
      \cup {Datetime(now.year, now.month, now.day, now.hour + 1, 0) :
              x \in {y \in {0} : now.hour # 23}}
      \cup {Datetime(now.year, now.month, now.day + 1, 0, 0) :
              x \in {y \in {0} : now.day # DaysInMonth(now.year, now.month)}}
      \cup {Datetime(now.year, now.month + 1, 1, 0, 0) :
              x \in {y \in {0} : now.month # 12}}
      \cup {Datetime(now.year + 1, 1, 1, 0, 0)}

\* the seed list has been built
SeedsBuilt == pc \in {"calculate", "loop", "finish"}

\* C12: seed generation. The seed list holds exactly the next-minute,
\* next-hour, next-day and next-month seeds of a reference that is not at
\* that field's maximum, the next-year seed, and the reference itself exactly
\* when it lies on a minute boundary.
C12_SeedGeneration ==
    SeedsBuilt => {seeds[k] : k \in 1..Len(seeds)} = ExpectedSeeds(now_date)

====
